---- MODULE Spec2Model ----
(***************************************************************************)
(* A model of the scripts of openenclave_ml_poc:                           *)
(*   scripts/create_model.py        create_and_save_identity_model         *)
(*   model_creation/main.py         the same construction, inline          *)
(*   sentiment-analysis-backend/tokenize_script.py   the tokenizing loop   *)
(*                                                                         *)
(* Four specifications share the variables:                                *)
(*   Spec       the two graph-construction scripts run against one file    *)
(*              system, one invocation after the other, with I/O faults    *)
(*   SpecConc   two invocations of them at a time, without I/O faults      *)
(*   SpecGraph  the graph construction of create_model.py:14-34 applied to *)
(*              drawn arguments, and the graph run on a drawn tensor       *)
(*   SpecTok    the tokenizing loop over a drawn input stream              *)
(***************************************************************************)
EXTENDS Integers, Sequences, FiniteSets, TLC

VARIABLES
    \* ---- Spec: the scripts and the file system
    libIr,      \* IR_VERSION of the installed onnx library (make_model's default)
    mode,       \* "sequential": one invocation at a time; "concurrent": two
    dirs,       \* the directories that exist (absolute paths)
    files,      \* file path -> content (a sequence of serialized fields)
    faults,     \* I/O faults the environment has injected so far
    pc,         \* invocation -> where it is in its script
    script,     \* invocation -> "create_model" | "main" | "none"
    arg,        \* invocation -> model_path argument (create_model) or cwd (main)
    graph_def,  \* invocation -> the graph built, or NoValue
    model_def,  \* invocation -> the ModelProto built, or NoValue
    model_path, \* invocation -> the absolute path it saves to
    lvl,        \* invocation -> depth os.makedirs is working at
    result,     \* invocation -> "none" | "ok" | the exception that ended it
    effects,    \* invocation -> the file-system effects it has had
    before,     \* invocation -> what model_path held when onnx.save was called
    \* ---- SpecGraph
    g_args, g_graph, g_feed, g_out, g_pc,
    \* ---- SpecTok
    stdin, pos, stdout

vars == <<libIr, mode, dirs, files, faults, pc, script, arg, graph_def, model_def,
          model_path, lvl, result, effects, before,
          g_args, g_graph, g_feed, g_out, g_pc, stdin, pos, stdout>>

fsVars    == <<libIr, mode, dirs, files, faults, pc, script, arg, graph_def,
               model_def, model_path, lvl, result, effects, before>>
graphVars == <<g_args, g_graph, g_feed, g_out, g_pc>>
tokVars   == <<stdin, pos, stdout>>

----------------------------------------------------------------------------
(* Bounds *)

MaxFaults  == 1     \* I/O faults injected in one behaviour
MaxDim     == 3     \* feature_dim is drawn from 1..MaxDim
MaxBatch   == 2     \* batch size N is drawn from 0..MaxBatch
MaxLines   == 2     \* lines on standard input
MaxLineLen == 2     \* characters of a line, its newline not counted

----------------------------------------------------------------------------
(* onnx.helper, as the scripts use it *)

NoValue == [none |-> TRUE]

\* A shape entry as the scripts pass it: Python's None, or an int.
None       == [tag |-> "None"]
PyInt(n)   == [tag |-> "int", v |-> n]

\* helper.make_tensor_value_info: an int sets dim_value, None leaves the
\* dimension unset (dim_value reads 0 and dim_param "", as line 66 relies on).
make_dim(d) ==
    IF d.tag = "int" THEN [dim_value |-> d.v, dim_param |-> ""]
    ELSE [dim_value |-> 0, dim_param |-> ""]

make_tensor_value_info(name, elem_type, shape) ==
    [name      |-> name,
     elem_type |-> elem_type,
     shape     |-> [i \in 1..Len(shape) |-> make_dim(shape[i])]]

make_node_swapped(op_type, inputs, outputs) ==
    [op_type |-> op_type, input |-> outputs, output |-> inputs]
make_node(op_type, inputs, outputs) ==
    [op_type |-> op_type, input |-> inputs, output |-> outputs]

make_graph(nodes, name, inputs, outputs) ==
    [node |-> nodes, name |-> name, input |-> inputs, output |-> outputs]

\* helper.make_model(graph, producer_name=.., [ir_version=..]): without the
\* keyword the library's own IR_VERSION is used; one default-domain opset entry.
\* The version the library puts in that entry is not modelled (0 stands for
\* it): both scripts assign it in their next statement, and MakeModel takes
\* the two statements as one step.
make_model(graph, producer_name, ir_version) ==
    [graph         |-> graph,
     producer_name |-> producer_name,
     ir_version    |-> ir_version,
     ir_explicit   |-> TRUE,
     opset_import  |-> <<[domain |-> "", version |-> 0]>>]

make_model_default_ir(graph, producer_name) ==
    [make_model(graph, producer_name, libIr) EXCEPT !.ir_explicit = FALSE]

set_opset(m, v) == [m EXCEPT !.opset_import[1].version = v]

----------------------------------------------------------------------------
(* The graph construction, create_model.py:14-34 and main.py:5-22 *)

\* The construction of create_model.py:14-34 with its literals as parameters:
\* X and Y of shape [None, feature_dim], one Identity node from X to Y.
\* The output declared one feature wider than the input.
build_identity_graph_wider_output(input_name, output_name, feature_dim, element_type) ==
    LET X == make_tensor_value_info(input_name, element_type,
                                    <<None, PyInt(feature_dim)>>)
        Y == make_tensor_value_info(output_name, element_type,
                                    <<None, PyInt(feature_dim + 1)>>)
        identity_node == make_node("Identity", <<input_name>>, <<output_name>>)
    IN  make_graph(<<identity_node>>, "simple-identity-model", <<X>>, <<Y>>)
\* The node left out of the graph's node list.
build_identity_graph_no_node(input_name, output_name, feature_dim, element_type) ==
    LET X == make_tensor_value_info(input_name, element_type,
                                    <<None, PyInt(feature_dim)>>)
        Y == make_tensor_value_info(output_name, element_type,
                                    <<None, PyInt(feature_dim)>>)
    IN  make_graph(<<>>, "simple-identity-model", <<X>>, <<Y>>)
build_identity_graph(input_name, output_name, feature_dim, element_type) ==
    LET X == make_tensor_value_info(input_name, element_type,
                                    <<None, PyInt(feature_dim)>>)
        Y == make_tensor_value_info(output_name, element_type,
                                    <<None, PyInt(feature_dim)>>)
        identity_node == make_node("Identity", <<input_name>>, <<output_name>>)
    IN  make_graph(<<identity_node>>, "simple-identity-model", <<X>>, <<Y>>)

\* The arguments each script's literals amount to.
CreateModelArgs == [input_name |-> "input_tensor", output_name |-> "output_tensor",
                    feature_dim |-> 2, element_type |-> "FLOAT"]
MainArgs        == [input_name |-> "input", output_name |-> "output",
                    feature_dim |-> 2, element_type |-> "FLOAT"]

ScriptGraph(s) ==
    LET a == IF s = "create_model" THEN CreateModelArgs ELSE MainArgs
    IN  build_identity_graph(a.input_name, a.output_name, a.feature_dim,
                             a.element_type)

\* create_model.py:44-48: ir_version=10 given, opset 10 assigned.
CreateModelIr    == 10
CreateModelOpset == 10
\* main.py:25-26: no ir_version given, opset 12 assigned.
MainOpset        == 12

ScriptModel(s, g) ==
    IF s = "create_model"
    THEN set_opset(make_model(g, "openenclave-poc-script", CreateModelIr),
                   CreateModelOpset)
    ELSE set_opset(make_model_default_ir(g, "onnx-example"), MainOpset)

\* What the consumers of the saved file understand.
MaxSupportedIr   == 10   \* create_model.py:37
IdentityMinOpset == 1    \* the opset that introduced Identity
\* The IR_VERSION of the onnx releases create_model.py:38-43 lists.
LibIrVersions    == {7, 8, 9, 10, 11}

OpsetCompatible(m) ==
    \E e \in 1..Len(m.opset_import) :
        /\ m.opset_import[e].domain = ""
        /\ \A n \in 1..Len(m.graph.node) :
              m.graph.node[n].op_type = "Identity"
                  => m.opset_import[e].version >= IdentityMinOpset
IrSupported(m) == m.ir_version >= 1 /\ m.ir_version <= MaxSupportedIr

----------------------------------------------------------------------------
(* Paths and the file system.  A path is the sequence of its components,   *)
(* <<>> being the root; a model_path argument also says whether it is      *)
(* absolute.                                                               *)

dirname(path)  == SubSeq(path, 1, Len(path) - 1)
Prefix(path, k) == SubSeq(path, 1, k)
join(a, b)     == a \o b

\* Where create_model.py lives: script_dir is <project>/scripts.
script_file == <<"proj", "scripts", "create_model.py">>
script_dir  == dirname(script_file)

\* create_model.py:72-73, the path the script passes when run as a program.
default_model_path ==
    [abs |-> TRUE,
     parts |-> join(dirname(dirname(script_file)), <<"model", "simple_model.onnx">>)]
\* create_model.py:7, the parameter's default.
param_default_path == [abs |-> FALSE, parts |-> <<"model", "simple_model.onnx">>]
\* main.py:29, always relative to the working directory.
main_rel_path      == <<"model", "simple_model.onnx">>

\* The arguments a caller passes: the two defaults, and two distinct files
\* under one directory that is two levels below anything that exists.
ModelPathArgs ==
    {default_model_path, param_default_path,
     [abs |-> FALSE, parts |-> <<"out", "a", "m.onnx">>],
     [abs |-> FALSE, parts |-> <<"out", "a", "n.onnx">>]}
\* The working directories main.py is started in.
WorkingDirs == {<<"proj">>, <<"proj", "model_creation">>}

Scripts == {"create_model", "main"}
Args(s) == IF s = "create_model" THEN ModelPathArgs ELSE WorkingDirs

\* create_model.py:53-57.
ResolvedPath(mp) ==
    IF ~mp.abs THEN join(dirname(script_dir), mp.parts) ELSE mp.parts

\* The directories of a checkout, and those a checkout may or may not have.
BaseDirs     == {<<>>, <<"proj">>, <<"proj", "scripts">>, <<"proj", "model_creation">>}
OptionalDirs == {<<"proj", "model">>, <<"proj", "model_creation", "model">>}

NoFile == <<"<absent>">>
FileAt(path) == IF path \in DOMAIN files THEN files[path] ELSE NoFile

\* The bytes onnx.save writes, as the sequence of the ModelProto's fields.
SerializeDim(d) == <<ToString(d.dim_value), d.dim_param>>
SerializeValueInfo(t) ==
    <<t.name, t.elem_type>> \o SerializeDim(t.shape[1]) \o SerializeDim(t.shape[2])
SerializeNode(n) == <<n.op_type>> \o n.input \o n.output
SerializeToString(m) ==
    <<ToString(m.ir_version), m.producer_name,
      m.opset_import[1].domain, ToString(m.opset_import[1].version),
      m.graph.name>>
    \o SerializeNode(m.graph.node[1])
    \o SerializeValueInfo(m.graph.input[1])
    \o SerializeValueInfo(m.graph.output[1])

\* write(2) at offset 0 of a file holding old: what lies past the data stays.
WriteAt0(old, data) ==
    IF Len(old) > Len(data) THEN data \o SubSeq(old, Len(data) + 1, Len(old))
    ELSE data

\* open(path, "wb"): an existing file is truncated.
OpenWb(old) == <<>>

\* os.makedirs(.., exist_ok=True), create_model.py:59.
exist_ok_dropped == FALSE
exist_ok == TRUE

----------------------------------------------------------------------------
(* Spec: invocations of the two scripts *)

Procs == {1, 2}

NoPath == <<"<none>">>
NotCalled == <<"<save not called>">>

\* The file an invocation saves to: the rebound model_path of create_model.py,
\* or main.py's literal resolved against its working directory.
Target(p) ==
    IF script[p] = "create_model" THEN model_path[p]
    ELSE IF script[p] = "main" THEN join(arg[p], main_rel_path)
    ELSE NoPath

Effect(op, path) == [op |-> op, path |-> path]

Idle(p) == pc[p] = "idle"

GraphOff == /\ g_args = NoValue /\ g_graph = NoValue /\ g_feed = NoValue
            /\ g_out = NoValue /\ g_pc = "off"
TokOff   == stdin = <<>> /\ pos = 0 /\ stdout = <<>>

InitIn(m) ==
    /\ libIr \in LibIrVersions
    /\ mode = m
    /\ \E extra \in SUBSET OptionalDirs : dirs = BaseDirs \cup extra
    /\ files = <<>>
    /\ faults = 0
    /\ pc = [p \in Procs |-> "idle"]
    /\ script = [p \in Procs |-> "none"]
    /\ arg = [p \in Procs |-> NoValue]
    /\ graph_def = [p \in Procs |-> NoValue]
    /\ model_def = [p \in Procs |-> NoValue]
    /\ model_path = [p \in Procs |-> NoPath]
    /\ lvl = [p \in Procs |-> 0]
    /\ result = [p \in Procs |-> "none"]
    /\ effects = [p \in Procs |-> {}]
    /\ before = [p \in Procs |-> NotCalled]
    /\ GraphOff /\ TokOff

\* The script is started.  One at a time in sequential mode.
Invoke(p) ==
    /\ Idle(p)
    /\ mode = "sequential" => \A q \in Procs : Idle(q)
    /\ \E s \in Scripts : \E a \in Args(s) :
          /\ script' = [script EXCEPT ![p] = s]
          /\ arg' = [arg EXCEPT ![p] = a]
    /\ pc' = [pc EXCEPT ![p] = "build"]
    /\ UNCHANGED <<libIr, mode, dirs, files, faults, graph_def, model_def,
                   model_path, lvl, result, effects, before>>
    /\ UNCHANGED <<graphVars, tokVars>>

\* create_model.py:14-34, main.py:5-22.
Build(p) ==
    /\ pc[p] = "build"
    /\ graph_def' = [graph_def EXCEPT ![p] = ScriptGraph(script[p])]
    /\ pc' = [pc EXCEPT ![p] = "model"]
    /\ UNCHANGED <<libIr, mode, dirs, files, faults, script, arg, model_def,
                   model_path, lvl, result, effects, before>>
    /\ UNCHANGED <<graphVars, tokVars>>

\* create_model.py:44-48, main.py:25-26.  Neither script checks anything here.
MakeModel(p) ==
    /\ pc[p] = "model"
    /\ model_def' = [model_def EXCEPT ![p] = ScriptModel(script[p], graph_def[p])]
    /\ pc' = [pc EXCEPT ![p] = IF script[p] = "create_model" THEN "resolve" ELSE "save"]
    /\ UNCHANGED <<libIr, mode, dirs, files, faults, script, arg, graph_def,
                   model_path, lvl, result, effects, before>>
    /\ UNCHANGED <<graphVars, tokVars>>

\* create_model.py:53-57, and the entry to os.makedirs of line 59.
ResolvePath(p) ==
    /\ pc[p] = "resolve"
    /\ model_path' = [model_path EXCEPT ![p] = ResolvedPath(arg[p])]
    /\ lvl' = [lvl EXCEPT ![p] = Len(dirname(ResolvedPath(arg[p])))]
    /\ pc' = [pc EXCEPT ![p] = "mk_up"]
    /\ UNCHANGED <<libIr, mode, dirs, files, faults, script, arg, graph_def,
                   model_def, result, effects, before>>
    /\ UNCHANGED <<graphVars, tokVars>>

\* os.makedirs: "if head and tail and not path.exists(head)", recursing on head.
MakedirsExists(p) ==
    /\ pc[p] = "mk_up"
    /\ LET head == Prefix(dirname(model_path[p]), lvl[p] - 1)
       IN  IF lvl[p] > 1 /\ head \notin dirs
           THEN /\ lvl' = [lvl EXCEPT ![p] = lvl[p] - 1]
                /\ pc' = pc
           ELSE /\ lvl' = lvl
                /\ pc' = [pc EXCEPT ![p] = "mk_down"]
    /\ UNCHANGED <<libIr, mode, dirs, files, faults, script, arg, graph_def,
                   model_def, model_path, result, effects, before>>
    /\ UNCHANGED <<graphVars, tokVars>>

\* What os.makedirs does after mkdir(name) at depth lvl returned or was forgiven.
AfterMkdir(p) ==
    IF lvl[p] = Len(dirname(model_path[p]))
    THEN /\ pc' = [pc EXCEPT ![p] = "save"]
         /\ lvl' = lvl
    ELSE /\ pc' = pc
         /\ lvl' = [lvl EXCEPT ![p] = lvl[p] + 1]

Raise(p, exc) ==
    /\ pc' = [pc EXCEPT ![p] = "done"]
    /\ result' = [result EXCEPT ![p] = exc]

\* os.makedirs: mkdir(name).  A FileExistsError from a recursive call is
\* passed over; from the outermost call it is forgiven when exist_ok and
\* name is a directory.
Mkdir(p) ==
    /\ pc[p] = "mk_down"
    /\ LET name  == Prefix(dirname(model_path[p]), lvl[p])
           outer == lvl[p] = Len(dirname(model_path[p]))
       IN  IF name \in dirs
           THEN IF outer /\ ~exist_ok
                THEN /\ Raise(p, "FileExistsError")
                     /\ UNCHANGED <<dirs, effects, lvl>>
                ELSE /\ AfterMkdir(p)
                     /\ UNCHANGED <<dirs, effects, result>>
           ELSE IF dirname(name) \notin dirs
                THEN /\ Raise(p, "FileNotFoundError")
                     /\ UNCHANGED <<dirs, effects, lvl>>
                ELSE /\ dirs' = dirs \cup {name}
                     /\ effects' = [effects EXCEPT
                                        ![p] = @ \cup {Effect("mkdir", name)}]
                     /\ AfterMkdir(p)
                     /\ UNCHANGED result
    /\ UNCHANGED <<libIr, mode, files, faults, script, arg, graph_def,
                   model_def, model_path, before>>
    /\ UNCHANGED <<graphVars, tokVars>>

\* mkdir fails for a reason of the environment's (permission, disk full).
MkdirFault(p) ==
    /\ pc[p] = "mk_down"
    /\ faults < MaxFaults
    /\ Prefix(dirname(model_path[p]), lvl[p]) \notin dirs
    /\ faults' = faults + 1
    /\ Raise(p, "OSError")
    /\ UNCHANGED <<libIr, mode, dirs, files, script, arg, graph_def,
                   model_def, model_path, lvl, effects, before>>
    /\ UNCHANGED <<graphVars, tokVars>>

\* onnx.save, create_model.py:62 and main.py:29: the proto is serialized in
\* memory, then open(path, "wb").
Open(p) ==
    /\ pc[p] = "save"
    /\ before' = [before EXCEPT ![p] = FileAt(Target(p))]
    /\ IF dirname(Target(p)) \notin dirs
       THEN /\ Raise(p, "FileNotFoundError")
            /\ UNCHANGED <<files, effects>>
       ELSE /\ files' = (Target(p) :> OpenWb(FileAt(Target(p)))) @@ files
            /\ effects' = [effects EXCEPT ![p] = @ \cup
                   {Effect(IF Target(p) \in DOMAIN files THEN "truncate" ELSE "create",
                           Target(p))}]
            /\ pc' = [pc EXCEPT ![p] = "write"]
            /\ UNCHANGED result
    /\ UNCHANGED <<libIr, mode, dirs, faults, script, arg, graph_def,
                   model_def, model_path, lvl>>
    /\ UNCHANGED <<graphVars, tokVars>>

\* open fails for a reason of the environment's (permission denied).
OpenFault(p) ==
    /\ pc[p] = "save"
    /\ faults < MaxFaults
    /\ dirname(Target(p)) \in dirs
    /\ faults' = faults + 1
    /\ before' = [before EXCEPT ![p] = FileAt(Target(p))]
    /\ Raise(p, "PermissionError")
    /\ UNCHANGED <<libIr, mode, dirs, files, script, arg, graph_def,
                   model_def, model_path, lvl, effects>>
    /\ UNCHANGED <<graphVars, tokVars>>

\* onnx.save: write(serialized), close; then the prints of lines 63-67.
Write(p) ==
    /\ pc[p] = "write"
    /\ files' = [files EXCEPT ![Target(p)] =
                     WriteAt0(@, SerializeToString(model_def[p]))]
    /\ effects' = [effects EXCEPT ![p] = @ \cup {Effect("write", Target(p))}]
    /\ pc' = [pc EXCEPT ![p] = "done"]
    /\ result' = [result EXCEPT ![p] = "ok"]
    /\ UNCHANGED <<libIr, mode, dirs, faults, script, arg, graph_def,
                   model_def, model_path, lvl, before>>
    /\ UNCHANGED <<graphVars, tokVars>>

\* The write fails part-way (disk full, I/O error) after k fields.
WriteFault(p) ==
    /\ pc[p] = "write"
    /\ faults < MaxFaults
    /\ faults' = faults + 1
    /\ \E k \in 0..(Len(SerializeToString(model_def[p])) - 1) :
          files' = [files EXCEPT ![Target(p)] =
                       WriteAt0(@, SubSeq(SerializeToString(model_def[p]), 1, k))]
    /\ effects' = [effects EXCEPT ![p] = @ \cup {Effect("write", Target(p))}]
    /\ Raise(p, "OSError")
    /\ UNCHANGED <<libIr, mode, dirs, script, arg, graph_def,
                   model_def, model_path, lvl, before>>
    /\ UNCHANGED <<graphVars, tokVars>>

\* The process has exited; the slot is free for the next invocation.
Exit(p) ==
    /\ pc[p] = "done"
    /\ pc' = [pc EXCEPT ![p] = "idle"]
    /\ script' = [script EXCEPT ![p] = "none"]
    /\ arg' = [arg EXCEPT ![p] = NoValue]
    /\ graph_def' = [graph_def EXCEPT ![p] = NoValue]
    /\ model_def' = [model_def EXCEPT ![p] = NoValue]
    /\ model_path' = [model_path EXCEPT ![p] = NoPath]
    /\ lvl' = [lvl EXCEPT ![p] = 0]
    /\ result' = [result EXCEPT ![p] = "none"]
    /\ effects' = [effects EXCEPT ![p] = {}]
    /\ before' = [before EXCEPT ![p] = NotCalled]
    /\ UNCHANGED <<libIr, mode, dirs, files, faults>>
    /\ UNCHANGED <<graphVars, tokVars>>

Next ==
    \E p \in Procs :
        \/ Invoke(p)
        \/ Build(p)
        \/ MakeModel(p)
        \/ ResolvePath(p)
        \/ MakedirsExists(p)
        \/ Mkdir(p)
        \/ MkdirFault(p)
        \/ Open(p)
        \/ OpenFault(p)
        \/ Write(p)
        \/ WriteFault(p)
        \/ Exit(p)

\* The scripts run one after the other, in an environment that may fail them.
Init == InitIn("sequential")
Spec == Init /\ [][Next]_vars

\* Two invocations at a time, each slot used once, no I/O faults.
InitConc == InitIn("concurrent")
NextConc ==
    \E p \in Procs :
        \/ Invoke(p)
        \/ Build(p)
        \/ MakeModel(p)
        \/ ResolvePath(p)
        \/ MakedirsExists(p)
        \/ Mkdir(p)
        \/ Open(p)
        \/ Write(p)
SpecConc == InitConc /\ [][NextConc]_vars

----------------------------------------------------------------------------
(* SpecGraph: the construction applied to drawn arguments, and the graph   *)
(* it returns run by a conformant runtime                                  *)

Names     == {"", "input_tensor", "output_tensor", "input", "output"}
ElemTypes == {"FLOAT", "INT64"}
Values    == {0, 1}

GraphArgs ==
    [input_name : Names, output_name : Names, feature_dim : 0..MaxDim,
     element_type : ElemTypes]

\* A tensor: its shape [N, d] and its N*d elements in row-major order.
Tensors ==
    UNION {[shape : {<<n, d>>}, elem_type : ElemTypes, data : [1..(n * d) -> Values]] :
             n \in 0..MaxBatch, d \in 1..MaxDim}

\* Whether a fed tensor fits a declared input: same element type and rank, and
\* every dimension that has a dim_value equal to it (an unset one fits any size).
Fits(tensor, info) ==
    /\ tensor.elem_type = info.elem_type
    /\ Len(tensor.shape) = Len(info.shape)
    /\ \A i \in 1..Len(info.shape) :
          info.shape[i].dim_value > 0 => tensor.shape[i] = info.shape[i].dim_value

RunFailed == [failed |-> TRUE]

\* The nodes run in sequence order over the values known by name; Identity
\* gives its output the value of its input.
RECURSIVE RunNodes(_, _, _)
RunNodes(nodes, i, env) ==
    IF i > Len(nodes) THEN env
    ELSE LET n == nodes[i]
         IN  IF /\ n.op_type = "Identity"
                /\ Len(n.input) = 1 /\ Len(n.output) = 1
                /\ n.input[1] \in DOMAIN env
             THEN RunNodes(nodes, i + 1, (n.output[1] :> env[n.input[1]]) @@ env)
             ELSE RunFailed

RunGraph(g, feed) ==
    IF ~Fits(feed, g.input[1]) THEN RunFailed
    ELSE LET env == RunNodes(g.node, 1, (g.input[1].name :> feed))
         IN  IF env = RunFailed THEN RunFailed
             ELSE IF g.output[1].name \in DOMAIN env THEN env[g.output[1].name]
             ELSE RunFailed

FsOff ==
    /\ libIr = CreateModelIr /\ mode = "off" /\ dirs = BaseDirs /\ files = <<>>
    /\ faults = 0
    /\ pc = [p \in Procs |-> "idle"]
    /\ script = [p \in Procs |-> "none"]
    /\ arg = [p \in Procs |-> NoValue]
    /\ graph_def = [p \in Procs |-> NoValue]
    /\ model_def = [p \in Procs |-> NoValue]
    /\ model_path = [p \in Procs |-> NoPath]
    /\ lvl = [p \in Procs |-> 0]
    /\ result = [p \in Procs |-> "none"]
    /\ effects = [p \in Procs |-> {}]
    /\ before = [p \in Procs |-> NotCalled]

InitGraph ==
    /\ g_args \in GraphArgs
    /\ g_graph = NoValue /\ g_feed = NoValue /\ g_out = NoValue
    /\ g_pc = "args"
    /\ FsOff /\ TokOff

CallBuild ==
    /\ g_pc = "args"
    /\ g_graph' = build_identity_graph(g_args.input_name, g_args.output_name,
                                        g_args.feature_dim, g_args.element_type)
    /\ g_pc' = "built"
    /\ UNCHANGED <<g_args, g_feed, g_out, fsVars, tokVars>>

CallRun ==
    /\ g_pc = "built"
    /\ \E t \in Tensors :
          /\ g_feed' = t
          /\ g_out' = RunGraph(g_graph, t)
    /\ g_pc' = "ran"
    /\ UNCHANGED <<g_args, g_graph, fsVars, tokVars>>

NextGraph == CallBuild \/ CallRun
SpecGraph == InitGraph /\ [][NextGraph]_vars

----------------------------------------------------------------------------
(* SpecTok: tokenize_script.py *)

Whitespace == {" ", "\n"}
Chars      == {"a", "b", " "}

RECURSIVE SeqsUpTo(_, _)
SeqsUpTo(S, n) ==
    IF n = 0 THEN {<<>>}
    ELSE LET shorter == SeqsUpTo(S, n - 1)
         IN  shorter \cup {Append(q, x) : q \in shorter, x \in S}

\* The lines "for line in sys.stdin" yields: each ends with its newline.
Lines   == {Append(body, "\n") : body \in SeqsUpTo(Chars, MaxLineLen)}
Streams == SeqsUpTo(Lines, MaxLines)

\* str.strip(): leading and trailing whitespace removed.
RECURSIVE lstrip(_)
lstrip(t) == IF t # <<>> /\ Head(t) \in Whitespace THEN lstrip(Tail(t)) ELSE t
RECURSIVE rstrip(_)
rstrip(t) ==
    IF t # <<>> /\ t[Len(t)] \in Whitespace THEN rstrip(SubSeq(t, 1, Len(t) - 1)) ELSE t
strip(t) == rstrip(lstrip(t))

\* "if not text_input: continue", tokenize_script.py:13-14.
skip_never(text_input) == FALSE
skip(text_input) == text_input = <<>>

\* tokenizer.encode(text, add_special_tokens=True).  The vocabulary belongs to
\* the tokenizer directory; here the text is split at whitespace, a word gets
\* one identifier per character (a different one for a character that
\* continues a word), and the sequence is wrapped in [CLS] and [SEP].
PieceId(c, first) ==
    IF c = "a" THEN (IF first THEN 1037 ELSE 2050)
    ELSE (IF first THEN 1038 ELSE 2497)
RECURSIVE Pieces(_, _)
Pieces(t, first) ==
    IF t = <<>> THEN <<>>
    ELSE IF Head(t) \in Whitespace THEN Pieces(Tail(t), TRUE)
    ELSE <<PieceId(Head(t), first)>> \o Pieces(Tail(t), FALSE)
encode(text) == <<101>> \o Pieces(text, TRUE) \o <<102>>

\* ",".join(map(str, token_ids)).
RECURSIVE join_comma(_)
join_comma(ids) ==
    IF ids = <<>> THEN ""
    ELSE IF Len(ids) = 1 THEN ToString(ids[1])
    ELSE ToString(ids[1]) \o "," \o join_comma(Tail(ids))

InitTok ==
    /\ stdin \in Streams
    /\ pos = 0
    /\ stdout = <<>>
    /\ FsOff /\ GraphOff

\* One iteration of the loop, tokenize_script.py:10-20.
ReadLine ==
    /\ pos < Len(stdin)
    /\ pos' = pos + 1
    /\ LET line == stdin[pos + 1]
           text_input == strip(line)
       IN  IF skip(text_input)
           THEN stdout' = stdout
           ELSE LET token_ids == encode(text_input)
                IN  stdout' = Append(stdout, join_comma(token_ids))
    /\ UNCHANGED <<stdin, fsVars, graphVars>>

NextTok == ReadLine
SpecTok == InitTok /\ [][NextTok]_vars

----------------------------------------------------------------------------
(* Claims about the save step and the model's metadata (Spec, SpecConc) *)

Ended(p)  == pc[p] = "done"
Failed(p) == Ended(p) /\ result[p] # "ok"
SaveCalled(p) == before[p] # NotCalled
Written(p) == Effect("write", Target(p)) \in effects[p]

\* C1: when an invocation's save step fails, the destination holds either the
\* complete new file or what it held before the call, never part of a file.
C1_SaveAtomicOnFailure ==
    \A p \in Procs :
        (Failed(p) /\ SaveCalled(p))
            => FileAt(Target(p)) \in {before[p], SerializeToString(model_def[p])}

\* C2: absent I/O faults a save creates the missing parent directories and
\* succeeds, and the file then holds exactly what that save wrote.
C2_SaveCreatesParentsAndOverwrites ==
    \A p \in Procs :
        (Ended(p) /\ faults = 0)
            => /\ result[p] = "ok"
               /\ dirname(Target(p)) \in dirs
               /\ FileAt(Target(p)) = SerializeToString(model_def[p])

\* C3: serialize yields a model only when the opset suits Identity and the
\* ir_version is in the supported range.
C3_SerializeRejectsIncompatible ==
    \A p \in Procs :
        model_def[p] # NoValue
            => OpsetCompatible(model_def[p]) /\ IrSupported(model_def[p])

\* C4: every model a script writes to disk has an opset that suits its
\* operators and an ir_version set explicitly, within the supported range.
C4_WrittenModelMetadata ==
    \A p \in Procs :
        Written(p)
            => /\ OpsetCompatible(model_def[p])
               /\ model_def[p].ir_explicit
               /\ model_def[p].ir_version <= MaxSupportedIr

\* C9: an invocation whose opset/ir-version combination is invalid ends with
\* no directory made and no file created or overwritten.
InvalidConfiguration(p) ==
    /\ model_def[p] # NoValue
    /\ ~(OpsetCompatible(model_def[p]) /\ IrSupported(model_def[p]))
C9_ConfigurationErrorBeforeIO ==
    \A p \in Procs :
        (Ended(p) /\ InvalidConfiguration(p)) => effects[p] = {}

\* C8: two concurrent create_model invocations on distinct paths both succeed,
\* and each path holds the complete file its own invocation wrote, under
\* directories that all exist.
BothEndedOnDistinctPaths ==
    /\ \A p \in Procs : Ended(p) /\ script[p] = "create_model"
    /\ Target(1) # Target(2)
C8_ConcurrentSavesIndependent ==
    BothEndedOnDistinctPaths
        => \A p \in Procs :
              /\ result[p] = "ok"
              /\ FileAt(Target(p)) = SerializeToString(model_def[p])
              /\ \A k \in 0..Len(dirname(Target(p))) :
                    Prefix(dirname(Target(p)), k) \in dirs
\* The two raced on a shared parent that was missing: each made one level of it.
C8_Witness ==
    /\ BothEndedOnDistinctPaths
    /\ dirname(Target(1)) = dirname(Target(2))
    /\ Effect("mkdir", <<"proj", "out">>) \in effects[1]
    /\ Effect("mkdir", <<"proj", "out", "a">>) \in effects[2]
    /\ \A p \in Procs : result[p] = "ok"

----------------------------------------------------------------------------
(* Claims about the graph (SpecGraph) *)

\* The constraint on build_identity_graph's arguments.
ValidArgs(a) ==
    /\ a.feature_dim > 0
    /\ a.input_name # "" /\ a.output_name # ""
    /\ a.input_name # a.output_name

Built == g_pc \in {"built", "ran"}

Dynamic(d)  == d.dim_value = 0 /\ d.dim_param = ""
Fixed(d, n) == d.dim_value = n /\ d.dim_param = ""

\* C5: for valid arguments the graph has one input and one output, both of
\* shape [dynamic, feature_dim] and of the element type asked for, under the
\* names given; create_model.py's own arguments give the scenario's graph.
C5_SingleInputOutputSameShape ==
    (Built /\ ValidArgs(g_args))
        => /\ Len(g_graph.input) = 1 /\ Len(g_graph.output) = 1
           /\ g_graph.input[1].name = g_args.input_name
           /\ g_graph.output[1].name = g_args.output_name
           /\ \A t \in {g_graph.input[1], g_graph.output[1]} :
                 /\ Len(t.shape) = 2
                 /\ Dynamic(t.shape[1])
                 /\ Fixed(t.shape[2], g_args.feature_dim)
                 /\ t.elem_type = g_args.element_type
           /\ g_args = CreateModelArgs
                 => /\ g_graph.input = <<[name |-> "input_tensor", elem_type |-> "FLOAT",
                                          shape |-> <<[dim_value |-> 0, dim_param |-> ""],
                                                      [dim_value |-> 2, dim_param |-> ""]>>]>>
                    /\ g_graph.output = <<[name |-> "output_tensor", elem_type |-> "FLOAT",
                                           shape |-> <<[dim_value |-> 0, dim_param |-> ""],
                                                       [dim_value |-> 2, dim_param |-> ""]>>]>>
C5_Witness == Built /\ g_args = CreateModelArgs
C5_WitnessOtherDim == Built /\ ValidArgs(g_args) /\ g_args.feature_dim = MaxDim

\* C6: for valid arguments the graph has exactly one node, an Identity from
\* the declared input to the declared output; every name a node refers to is
\* declared, and the input and output names differ.
Declared(g) ==
    {g.input[i].name : i \in 1..Len(g.input)} \cup
    {g.output[i].name : i \in 1..Len(g.output)}
C6_GraphWellFormed ==
    (Built /\ ValidArgs(g_args))
        => /\ Len(g_graph.node) = 1
           /\ g_graph.node[1].op_type = "Identity"
           /\ g_graph.node[1].input = <<g_graph.input[1].name>>
           /\ g_graph.node[1].output = <<g_graph.output[1].name>>
           /\ \A n \in 1..Len(g_graph.node) :
                 /\ \A i \in 1..Len(g_graph.node[n].input) :
                       g_graph.node[n].input[i] \in Declared(g_graph)
                 /\ \A i \in 1..Len(g_graph.node[n].output) :
                       g_graph.node[n].output[i] \in Declared(g_graph)
           /\ g_graph.input[1].name # g_graph.output[1].name
C6_Witness == Built /\ ValidArgs(g_args) /\ g_args = MainArgs

\* C10: run on a tensor of shape [N, feature_dim] of the graph's element type,
\* N >= 0, the graph built from valid arguments returns that very tensor.
FeedConforms ==
    /\ g_feed.shape[2] = g_args.feature_dim
    /\ g_feed.elem_type = g_args.element_type
C10_WitnessFullBatch ==
    /\ g_pc = "ran" /\ ValidArgs(g_args) /\ FeedConforms
    /\ g_feed.shape[1] = MaxBatch /\ g_out = g_feed
    /\ \E i, j \in DOMAIN g_feed.data : g_feed.data[i] # g_feed.data[j]

----------------------------------------------------------------------------
(* Claims about the tokenizing loop (SpecTok) *)

RECURSIVE Outputs(_, _)
\* The output lines owed to those lines of a stream that are in the set kept.
Outputs(lines, kept) ==
    IF lines = <<>> THEN <<>>
    ELSE (IF Head(lines) \in kept THEN <<join_comma(encode(strip(Head(lines))))>> ELSE <<>>)
         \o Outputs(Tail(lines), kept)

NonBlank(line) == \E i \in 1..Len(line) : line[i] \notin Whitespace
NonEmptyLines == {line \in Lines : line # <<"\n">>}
NonBlankLines == {line \in Lines : NonBlank(line)}

\* C7 as stated: at end of input there is one output line for each non-empty
\* input line, in order, and none for an empty line.
C7_OneOutputPerNonEmptyLine ==
    pos = Len(stdin) => stdout = Outputs(stdin, NonEmptyLines)

\* C7 amended: after any number of lines read there is one output line, the
\* identifiers of the stripped line, for each line read that holds a character
\* other than whitespace, in order, and none for the other lines.
C7_OneOutputPerNonBlankLine ==
    stdout = Outputs(SubSeq(stdin, 1, pos), NonBlankLines)
\* An empty line and a line of text have been read, and one line is out.
C7_Witness ==
    /\ pos = Len(stdin) /\ Len(stdin) = 2
    /\ stdin[1] = <<"\n">> /\ NonBlank(stdin[2])
    /\ Len(stdout) = 1 /\ stdout[1] # ""

====
